---- MODULE Spec2Model ----
(***************************************************************************)
(* Model of services/data_store.py of moonly-backend.                      *)
(*                                                                         *)
(* Five specifications share this module:                                  *)
(*   SpecPipeline  the computation inside one run of get_sat_data          *)
(*                 (decimation, trajectory sampling, shadow detection),    *)
(*                 over bounded raw epoch sequences and shadow predicates; *)
(*   Spec          the cache, the three files and the threads that use     *)
(*                 them (initialize_data_store, the 12 h scheduler job and *)
(*                 a request worker calling sat_data), one step per        *)
(*                 access to shared state;                                 *)
(*   SpecLive      the same threads from a cold start, with fairness and   *)
(*                 faults that stop;                                       *)
(*   SpecQuery     the two request handlers of app.py over a populated     *)
(*                 cache;                                                  *)
(*   SpecRoundTrip save_data, the cache assignment of get_sat_data and     *)
(*                 load_data in sequence, with the wall clock.             *)
(* Timestamps are whole seconds, except in SpecRoundTrip (microseconds).   *)
(***************************************************************************)
EXTENDS Integers, Sequences, FiniteSets, TLC

VARIABLES
    \* ---- one run of get_sat_data's computation (SpecPipeline)
    ppc,               \* position in the computation
    raw_epoches,       \* timestamps of the raw state vectors, ascending
    eclipse,           \* the time windows in which is_in_shadow answers True
    epoches,           \* decimated epochs: records [date, location]
    i,                 \* outer loop index of lines 179-220
    j,                 \* inner loop index of lines 185-220
    date,              \* the loop variable `date` (timestamp of the sample)
    shadow_start,      \* None or the timestamp the current eclipse began
    shadow_intervals,  \* list of <<start, end>>
    sat,               \* the trajectory: records [date, location]
    \* ---- the module globals and the files (Spec)
    sat_data_cache,          \* _sat_data_cache: None or a generation's points
    shadow_intervals_cache,  \* _shadow_intervals_cache
    updated_at_cache,        \* _updated_at_cache
    files,                   \* content of the three files of lines 19-21
    \* ---- the threads (Spec)
    pc,                \* each thread's position
    gen,               \* get_sat_data's locals sat, shadow_intervals: their generation
    saved,             \* what the thread's save_data call returned
    ld,                \* load_data's locals updated_at, sat_data, shadow_intervals
    loadNo,            \* which of its two load_data calls the caller is in
    produced,          \* what the thread's get_sat_data call returned
    result,            \* what the worker's sat_data call returned
    calls,             \* calls started by the thread
    \* ---- bookkeeping
    nextGen,           \* the generation the next successful computation makes
    lastCompleted,     \* the generation of the get_sat_data run that returned sat last
    disk_fault,          \* an injected read or write error has occurred
    \* ---- the request handlers of app.py (SpecQuery)
    raw_request,       \* request.json of the last POST /tracking/iss-data-raw
    raw_response,      \* what get_iss_data_raw returned for it
    data_request,      \* request.json of the last POST /tracking/iss-data
    data_response,     \* what get_iss_data returned for it
    \* ---- the wall clock (SpecRoundTrip)
    clock              \* what datetime.now(utc) returns: [sec, usec]

pvars == <<ppc, raw_epoches, eclipse, epoches, i, j, date, shadow_start,
           shadow_intervals, sat>>

cachevars == <<sat_data_cache, shadow_intervals_cache, updated_at_cache>>

tvars == <<pc, gen, saved, ld, loadNo, produced, result, calls>>

hvars == <<nextGen, lastCompleted, disk_fault>>

cvars == <<cachevars, files, tvars, hvars>>

qvars == <<raw_request, raw_response, data_request, data_response>>

vars == <<pvars, cvars, qvars, clock>>

\* ------------------------------------------------------------------ values

\* Python's None, for timestamps and cache references.
None == -1

\* 60 * 4 of line 165: the minimum gap between decimated epochs, seconds.
MinGap == 240

\* The sampling cadence of lines 183 and 190, seconds.
SampleSeconds == 5

\* ------------------------------------------------------------------ bounds

\* Longest raw epoch sequence drawn.
MaxRaw == 4

\* Most eclipse windows drawn for the shadow predicate.
MaxWindows == 2

\* Timestamps the raw epochs are drawn from.
RawTimes == {0, 100, 240, 245, 500, 745}

\* Windows [lo, hi) the shadow predicate is drawn from.
WindowSet == {<<0, 10>>, <<5, 250>>, <<245, 500>>, <<480, 2000>>}

RECURSIVE AscSeqs(_, _)
\* The ascending sequences of length n over the set S of integers.
AscSeqs(S, n) ==
    IF n = 0 THEN {<< >>}
    ELSE UNION {{Append(s, x) : x \in {y \in S : s = << >> \/ y > s[Len(s)]}}
                  : s \in AscSeqs(S, n - 1)}

RawInputs == UNION {AscSeqs(RawTimes, n) : n \in 0..MaxRaw}

EclipseInputs == {W \in SUBSET WindowSet : Cardinality(W) <= MaxWindows}

\* ------------------------------------------------ get_sat_data, lines 158-223

Last(s) == s[Len(s)]

\* is_in_shadow(sun_m, pt) at the sample taken at time t.
is_in_shadow(t) == \E w \in eclipse : w[1] <= t /\ t < w[2]

RECURSIVE DecimateFromMinute(_, _, _)
\* The loop with 60 for 60 * 4 as the minimum gap.
DecimateFromMinute(raw, k, eps) ==
    IF k > Len(raw) - 1 THEN eps
    ELSE IF Len(eps) = 0 \/ raw[k] - Last(eps).date >= 60
         THEN DecimateFromMinute(raw, k + 1,
                                 Append(eps, [date |-> raw[k], location |-> k]))
         ELSE DecimateFromMinute(raw, k + 1, eps)

RECURSIVE DecimateFrom(_, _, _)
\* The loop of lines 162-170 from index k (1-based) on, with eps kept so far.
\* range(len(raw_epoches) - 1) visits the 1-based indices 1 .. Len(raw) - 1.
DecimateFrom(raw, k, eps) ==
    IF k > Len(raw) - 1 THEN eps
    ELSE IF Len(eps) = 0 \/ raw[k] - Last(eps).date >= MinGap
         THEN DecimateFrom(raw, k + 1, Append(eps, [date |-> raw[k], location |-> k]))
         ELSE DecimateFrom(raw, k + 1, eps)

Decimate(raw) == DecimateFrom(raw, 1, << >>)

\* steps of line 183 for the segment from start to end.
Steps(start, end) ==
    LET q == (end - start) \div SampleSeconds IN IF q > 1 THEN q ELSE 1

\* Segment k (1-based) of the decimated epochs.
SegStart(k) == epoches[k].date
SegEnd(k) == epoches[k + 1].date


\* ------------------------------------------------------------------ threads

\* [] : the list get_sat_data returns on failure (line 237) and the lists of
\* the fallback record of lines 257-260.
EmptyList == 0

\* A file that does not exist (os.path.exists of line 116 is False).
Absent == -2

\* A file opened with mode 'w' (lines 92, 96, 101) and not yet written and
\* closed, or written by two threads at once: empty, partial or overlaid,
\* neither JSON nor an ISO timestamp.
Truncated == -3

SAT_DATA_FILE == "data/sat_data.json"
SHADOW_FILE == "data/shadow_intervals.json"
TIMESTAMP_FILE == "data/updated_at.txt"

FileNames == {SAT_DATA_FILE, SHADOW_FILE, TIMESTAMP_FILE}

\* The request worker; "main" runs initialize_data_store at import time and
\* "sched" is the BackgroundScheduler thread running refresh_satellite_data.
Workers == {"w1"}

Procs == {"main", "sched"} \cup Workers

\* sat_data calls each worker makes.
MaxCalls == 2

\* Firings of the 12 h job.
MaxRefresh == 1

NoneTriple == [updated_at |-> None, sat_data |-> None, shadow_intervals |-> None]

NoResult == [status |-> "none", points |-> None, shadow_intervals |-> None]

\* The record of lines 257-260.
EmptyRecord == [status |-> "returned", points |-> EmptyList, shadow_intervals |-> EmptyList]

\* The values pinned while the other specification runs.
\* No request has been served.
NoResponse == [status |-> "none"]

\* The handlers have served nothing, and the clock is not read.
ServiceIdle ==
    /\ raw_request = << >>
    /\ raw_response = NoResponse
    /\ data_request = << >>
    /\ data_response = NoResponse
    /\ clock = [sec |-> 0, usec |-> 0]

PipelineIdle ==
    /\ ppc = "off"
    /\ raw_epoches = << >>
    /\ eclipse = {}
    /\ epoches = << >>
    /\ i = 0
    /\ j = 0
    /\ date = None
    /\ shadow_start = None
    /\ shadow_intervals = << >>
    /\ sat = << >>

ThreadsInit(mainpc) ==
    /\ sat_data_cache = None
    /\ shadow_intervals_cache = None
    /\ updated_at_cache = None
    /\ pc = [p \in Procs |-> IF p = "main" THEN mainpc ELSE "idle"]
    /\ gen = [p \in Procs |-> None]
    /\ saved = [p \in Procs |-> FALSE]
    /\ ld = [p \in Procs |-> NoneTriple]
    /\ loadNo = [p \in Procs |-> 0]
    /\ produced = [p \in Procs |-> None]
    /\ result = [p \in Procs |-> NoResult]
    /\ calls = [p \in Procs |-> 0]
    /\ nextGen = 2
    /\ lastCompleted = None
    /\ disk_fault = FALSE

\* The data directory is empty, or holds generation 1 written by an earlier
\* run of the process.
Init ==
    /\ ThreadsInit("init")
    /\ \E c \in {Absent, 1} : files = [f \in FileNames |-> c]
    /\ PipelineIdle
    /\ ServiceIdle

Goto(p, l) == pc' = [pc EXCEPT ![p] = l]

\* Line 245 (and line 63): the cache is empty.
CacheEmpty == sat_data_cache = None \/ shadow_intervals_cache = None

\* A caller that takes a failed first load as final: sat_data returns the
\* empty record without calling get_sat_data.
AfterLoadGivesUp(p, v) ==
    LET none == v.sat_data = None \/ v.shadow_intervals = None IN
    IF p = "main"
    THEN /\ Goto(p, IF loadNo[p] = 1 /\ CacheEmpty THEN "gs_fetch" ELSE "started")
         /\ UNCHANGED result
    ELSE IF none
         THEN /\ Goto(p, "idle")
              /\ result' = [result EXCEPT ![p] = EmptyRecord]
         ELSE /\ Goto(p, "sd_ret1")
              /\ UNCHANGED result

\* What the caller does with v, the triple load_data returns: lines 63-68 of
\* initialize_data_store, lines 249-266 of sat_data.
AfterLoad(p, v) ==
    LET none == v.sat_data = None \/ v.shadow_intervals = None IN
    IF p = "main"
    THEN /\ Goto(p, IF loadNo[p] = 1 /\ CacheEmpty THEN "gs_fetch" ELSE "started")
         /\ UNCHANGED result
    ELSE IF loadNo[p] = 1
         THEN /\ Goto(p, IF none THEN "gs_fetch" ELSE "sd_ret1")
              /\ UNCHANGED result
         ELSE IF none
              THEN /\ Goto(p, "idle")
                   /\ result' = [result EXCEPT ![p] = EmptyRecord]
              ELSE /\ Goto(p, "sd_ret1")
                   /\ UNCHANGED result

\* What the caller does when get_sat_data returns: line 65, line 42, line 252.
AfterGen(p) ==
    IF p = "sched"
    THEN /\ Goto(p, "idle")
         /\ UNCHANGED loadNo
    ELSE /\ Goto(p, "ld_exists")
         /\ loadNo' = [loadNo EXCEPT ![p] = 2]

\* An exception no handler catches leaves the thread's call.
Raise(p) ==
    /\ Goto(p, IF p = "main" THEN "crashed" ELSE "idle")
    /\ result' = [result EXCEPT ![p] = [NoResult EXCEPT !.status = "raised"]]

\* load_data without its try: the exception reaches the caller.
LoadDataRaises(p) ==
    /\ ld' = [ld EXCEPT ![p] = NoneTriple]
    /\ Raise(p)

\* Lines 138-140: load_data's except clause.
LoadDataExcept(p) ==
    /\ ld' = [ld EXCEPT ![p] = NoneTriple]
    /\ AfterLoad(p, NoneTriple)

\* Lines 105-107: save_data's except clause; line 226 drops the False.
SaveDataExcept(p) ==
    /\ saved' = [saved EXCEPT ![p] = FALSE]
    /\ Goto(p, "gs_c1")

\* An except clause that also drops the cache.
GetSatDataExceptClears(p) ==
    /\ produced' = [produced EXCEPT ![p] = EmptyList]
    /\ AfterGen(p)
    /\ sat_data_cache' = None
    /\ shadow_intervals_cache' = None
    /\ updated_at_cache' = None

\* Lines 235-237: get_sat_data's except clause.
GetSatDataExcept(p) ==
    /\ produced' = [produced EXCEPT ![p] = EmptyList]
    /\ AfterGen(p)
    /\ UNCHANGED cachevars

\* ---- initialize_data_store, refresh_satellite_data, sat_data

\* Line 60.
InitializeDataStore ==
    /\ pc["main"] = "init"
    /\ Goto("main", "ld_exists")
    /\ loadNo' = [loadNo EXCEPT !["main"] = 1]
    /\ UNCHANGED <<cachevars, files, gen, saved, ld, produced, result, calls, hvars>>
    /\ UNCHANGED <<pvars, qvars, clock>>

\* Lines 38-45: the job fires; line 68 started the scheduler.
RefreshSatelliteData ==
    /\ pc["main"] = "started"
    /\ pc["sched"] = "idle"
    /\ calls["sched"] < MaxRefresh
    /\ calls' = [calls EXCEPT !["sched"] = @ + 1]
    /\ produced' = [produced EXCEPT !["sched"] = None]
    /\ Goto("sched", "gs_fetch")
    /\ UNCHANGED <<cachevars, files, gen, saved, ld, loadNo, result, hvars>>
    /\ UNCHANGED <<pvars, qvars, clock>>

\* Lines 240-246: a request calls sat_data. The two reads of line 245 are one
\* step: neither global ever goes back to None, so the test gives what an
\* atomic test at the time of its second read gives.
SatDataCall(p) ==
    /\ pc["main"] = "started"
    /\ pc[p] = "idle"
    /\ calls[p] < MaxCalls
    /\ calls' = [calls EXCEPT ![p] = @ + 1]
    /\ result' = [result EXCEPT ![p] = NoResult]
    /\ produced' = [produced EXCEPT ![p] = None]
    /\ ld' = [ld EXCEPT ![p] = NoneTriple]
    /\ IF CacheEmpty
       THEN /\ Goto(p, "ld_exists")
            /\ loadNo' = [loadNo EXCEPT ![p] = 1]
       ELSE /\ Goto(p, "sd_ret1")
            /\ loadNo' = [loadNo EXCEPT ![p] = 0]
    /\ UNCHANGED <<cachevars, files, gen, saved, hvars>>
    /\ UNCHANGED <<pvars, qvars, clock>>

\* The read of _sat_data_cache held back while a refresh is in progress.
SatDataReadPointsWaits(p) ==
    /\ pc[p] = "sd_ret1"
    /\ pc["sched"] = "idle"
    /\ result' = [result EXCEPT ![p].points = sat_data_cache]
    /\ Goto(p, "sd_ret2")
    /\ UNCHANGED <<cachevars, files, gen, saved, ld, loadNo, produced, calls, hvars>>
    /\ UNCHANGED <<pvars, qvars, clock>>

\* Line 264: the read of _sat_data_cache.
SatDataReadPoints(p) ==
    /\ pc[p] = "sd_ret1"
    /\ result' = [result EXCEPT ![p].points = sat_data_cache]
    /\ Goto(p, "sd_ret2")
    /\ UNCHANGED <<cachevars, files, gen, saved, ld, loadNo, produced, calls, hvars>>
    /\ UNCHANGED <<pvars, qvars, clock>>

\* Lines 265-266: the read of _shadow_intervals_cache, and the return.
SatDataReturn(p) ==
    /\ pc[p] = "sd_ret2"
    /\ result' = [result EXCEPT ![p].shadow_intervals = shadow_intervals_cache,
                                ![p].status = "returned"]
    /\ Goto(p, "idle")
    /\ UNCHANGED <<cachevars, files, gen, saved, ld, loadNo, produced, calls, hvars>>
    /\ UNCHANGED <<pvars, qvars, clock>>

\* ---- load_data, lines 110-140

\* Lines 116-118: both data files must exist. Nothing deletes a file, so the
\* two tests are one step.
LoadDataExists(p) ==
    /\ pc[p] = "ld_exists"
    /\ ld' = [ld EXCEPT ![p] = NoneTriple]
    /\ IF files[SAT_DATA_FILE] = Absent \/ files[SHADOW_FILE] = Absent
       THEN AfterLoad(p, NoneTriple)
       ELSE Goto(p, "ld_ts") /\ UNCHANGED result
    /\ UNCHANGED <<cachevars, files, gen, saved, loadNo, produced, calls, hvars>>
    /\ UNCHANGED <<pvars, qvars, clock>>

\* The file each reading step of load_data reads, and the local it sets.
ReadFile(l) ==
    CASE l = "ld_ts" -> TIMESTAMP_FILE
      [] l = "ld_sat" -> SAT_DATA_FILE
      [] l = "ld_shadow" -> SHADOW_FILE

ReadPcs == {"ld_ts", "ld_sat", "ld_shadow"}

\* A file holding what one save_data wrote to it.
Readable(f) == files[f] # Absent /\ files[f] # Truncated

\* Lines 121-122: the timestamp file is read and parsed.
LoadDataTimestamp(p) ==
    /\ pc[p] = "ld_ts"
    /\ Readable(TIMESTAMP_FILE)
    /\ ld' = [ld EXCEPT ![p].updated_at = files[TIMESTAMP_FILE]]
    /\ Goto(p, "ld_sat")
    /\ UNCHANGED <<cachevars, files, gen, saved, loadNo, produced, result, calls, hvars>>
    /\ UNCHANGED <<pvars, qvars, clock>>

\* The read of the points file assigning the global at once.
LoadDataPointsCachesEarly(p) ==
    /\ pc[p] = "ld_sat"
    /\ Readable(SAT_DATA_FILE)
    /\ ld' = [ld EXCEPT ![p].sat_data = files[SAT_DATA_FILE]]
    /\ sat_data_cache' = files[SAT_DATA_FILE]
    /\ Goto(p, "ld_shadow")
    /\ UNCHANGED <<shadow_intervals_cache, updated_at_cache, files, gen, saved,
                   loadNo, produced, result, calls, hvars>>
    /\ UNCHANGED <<pvars, qvars, clock>>

\* Lines 125-126.
LoadDataPoints(p) ==
    /\ pc[p] = "ld_sat"
    /\ Readable(SAT_DATA_FILE)
    /\ ld' = [ld EXCEPT ![p].sat_data = files[SAT_DATA_FILE]]
    /\ Goto(p, "ld_shadow")
    /\ UNCHANGED <<cachevars, files, gen, saved, loadNo, produced, result, calls, hvars>>
    /\ UNCHANGED <<pvars, qvars, clock>>

\* Lines 129-130.
LoadDataShadow(p) ==
    /\ pc[p] = "ld_shadow"
    /\ Readable(SHADOW_FILE)
    /\ ld' = [ld EXCEPT ![p].shadow_intervals = files[SHADOW_FILE]]
    /\ Goto(p, "ld_c1")
    /\ UNCHANGED <<cachevars, files, gen, saved, loadNo, produced, result, calls, hvars>>
    /\ UNCHANGED <<pvars, qvars, clock>>

\* open, read or parse raises in lines 121-130: the file is missing, is being
\* written, or the read fails (an injected fault when the file is sound).
LoadDataFails(p) ==
    /\ pc[p] \in ReadPcs
    /\ disk_fault' = (disk_fault \/ Readable(ReadFile(pc[p])))
    /\ LoadDataExcept(p)
    /\ UNCHANGED <<cachevars, files, gen, saved, loadNo, produced, calls,
                   nextGen, lastCompleted>>
    /\ UNCHANGED <<pvars, qvars, clock>>

\* Line 133.
LoadDataCachePoints(p) ==
    /\ pc[p] = "ld_c1"
    /\ sat_data_cache' = ld[p].sat_data
    /\ Goto(p, "ld_c2")
    /\ UNCHANGED <<shadow_intervals_cache, updated_at_cache, files, gen, saved, ld,
                   loadNo, produced, result, calls, hvars>>
    /\ UNCHANGED <<pvars, qvars, clock>>

\* Line 134.
LoadDataCacheShadow(p) ==
    /\ pc[p] = "ld_c2"
    /\ shadow_intervals_cache' = ld[p].shadow_intervals
    /\ Goto(p, "ld_c3")
    /\ UNCHANGED <<sat_data_cache, updated_at_cache, files, gen, saved, ld,
                   loadNo, produced, result, calls, hvars>>
    /\ UNCHANGED <<pvars, qvars, clock>>

\* Lines 135-137.
LoadDataReturn(p) ==
    /\ pc[p] = "ld_c3"
    /\ updated_at_cache' = ld[p].updated_at
    /\ AfterLoad(p, ld[p])
    /\ UNCHANGED <<sat_data_cache, shadow_intervals_cache, files, gen, saved, ld,
                   loadNo, produced, calls, hvars>>
    /\ UNCHANGED <<pvars, qvars, clock>>

\* ---- get_sat_data, lines 143-237, and save_data, lines 88-107

\* Lines 146-156: the downloads and the parse succeed.
GetSatDataFetch(p) ==
    /\ pc[p] = "gs_fetch"
    /\ Goto(p, "gs_compute")
    /\ UNCHANGED <<cachevars, files, gen, saved, ld, loadNo, produced, result, calls, hvars>>
    /\ UNCHANGED <<pvars, qvars, clock>>

\* Lines 158-223 succeed: sat and shadow_intervals hold a new generation.
GetSatDataCompute(p) ==
    /\ pc[p] = "gs_compute"
    /\ gen' = [gen EXCEPT ![p] = nextGen]
    /\ nextGen' = nextGen + 1
    /\ Goto(p, "sv_open1")
    /\ UNCHANGED <<cachevars, files, saved, ld, loadNo, produced, result, calls,
                   lastCompleted, disk_fault>>
    /\ UNCHANGED <<pvars, qvars, clock>>

\* Lines 146-223 raise (fetch, parse or compute error).
GetSatDataFails(p) ==
    /\ pc[p] \in {"gs_fetch", "gs_compute"}
    /\ GetSatDataExcept(p)
    /\ UNCHANGED <<files, gen, saved, ld, result, calls, hvars>>
    /\ UNCHANGED <<pvars, qvars, clock>>

OpenPcs == {"sv_open1", "sv_open2", "sv_open3"}

DumpPcs == {"sv_dump1", "sv_dump2", "sv_dump3"}

\* The file each step of save_data works on.
SaveFile(l) ==
    CASE l \in {"sv_open1", "sv_dump1"} -> SAT_DATA_FILE
      [] l \in {"sv_open2", "sv_dump2"} -> SHADOW_FILE
      [] l \in {"sv_open3", "sv_dump3"} -> TIMESTAMP_FILE

\* The step after each step of save_data; line 104 returns True to line 226.
SaveNext(l) ==
    CASE l = "sv_open1" -> "sv_dump1"
      [] l = "sv_dump1" -> "sv_open2"
      [] l = "sv_open2" -> "sv_dump2"
      [] l = "sv_dump2" -> "sv_open3"
      [] l = "sv_open3" -> "sv_dump3"
      [] l = "sv_dump3" -> "gs_c1"

\* Lines 92, 96, 101: open(..., 'w') creates or truncates the file.
SaveDataOpen(p) ==
    /\ pc[p] \in OpenPcs
    /\ files' = [files EXCEPT ![SaveFile(pc[p])] = Truncated]
    /\ Goto(p, SaveNext(pc[p]))
    /\ UNCHANGED <<cachevars, gen, saved, ld, loadNo, produced, result, calls, hvars>>
    /\ UNCHANGED <<pvars, qvars, clock>>

\* Lines 93, 97, 102 and the close: the content is written; after the third
\* file line 104 returns True. When another thread has written the file
\* since this thread opened it, the two contents overlay: the file holds this
\* thread's content, or that content followed by the rest of a longer one.
SaveDataDump(p) ==
    /\ pc[p] \in DumpPcs
    /\ \E c \in (IF files[SaveFile(pc[p])] = Truncated
                 THEN {gen[p]} ELSE {gen[p], Truncated}) :
          files' = [files EXCEPT ![SaveFile(pc[p])] = c]
    /\ saved' = [saved EXCEPT ![p] = (pc[p] = "sv_dump3")]
    /\ Goto(p, SaveNext(pc[p]))
    /\ UNCHANGED <<cachevars, gen, ld, loadNo, produced, result, calls, hvars>>
    /\ UNCHANGED <<pvars, qvars, clock>>

\* open or write raises in lines 92-102; the file stays as it is.
SaveDataFails(p) ==
    /\ pc[p] \in OpenPcs \cup DumpPcs
    /\ disk_fault' = TRUE
    /\ SaveDataExcept(p)
    /\ UNCHANGED <<cachevars, files, gen, ld, loadNo, produced, result, calls,
                   nextGen, lastCompleted>>
    /\ UNCHANGED <<pvars, qvars, clock>>

\* Line 230.
GetSatDataCachePoints(p) ==
    /\ pc[p] = "gs_c1"
    /\ sat_data_cache' = gen[p]
    /\ Goto(p, "gs_c2")
    /\ UNCHANGED <<shadow_intervals_cache, updated_at_cache, files, gen, saved, ld,
                   loadNo, produced, result, calls, hvars>>
    /\ UNCHANGED <<pvars, qvars, clock>>

\* Line 231.
GetSatDataCacheShadow(p) ==
    /\ pc[p] = "gs_c2"
    /\ shadow_intervals_cache' = gen[p]
    /\ Goto(p, "gs_c3")
    /\ UNCHANGED <<sat_data_cache, updated_at_cache, files, gen, saved, ld,
                   loadNo, produced, result, calls, hvars>>
    /\ UNCHANGED <<pvars, qvars, clock>>

\* Lines 232-234.
GetSatDataReturn(p) ==
    /\ pc[p] = "gs_c3"
    /\ updated_at_cache' = gen[p]
    /\ produced' = [produced EXCEPT ![p] = gen[p]]
    /\ lastCompleted' = gen[p]
    /\ AfterGen(p)
    /\ UNCHANGED <<sat_data_cache, shadow_intervals_cache, files, gen, saved, ld,
                   result, calls, nextGen, disk_fault>>
    /\ UNCHANGED <<pvars, qvars, clock>>

Next ==
    \/ InitializeDataStore
    \/ RefreshSatelliteData
    \/ \E p \in Workers :
          \/ SatDataCall(p)
          \/ SatDataReadPoints(p)
          \/ SatDataReturn(p)
    \/ \E p \in Procs :
          \/ LoadDataExists(p)
          \/ LoadDataTimestamp(p)
          \/ LoadDataPoints(p)
          \/ LoadDataShadow(p)
          \/ LoadDataFails(p)
          \/ LoadDataCachePoints(p)
          \/ LoadDataCacheShadow(p)
          \/ LoadDataReturn(p)
          \/ GetSatDataFetch(p)
          \/ GetSatDataCompute(p)
          \/ GetSatDataFails(p)
          \/ SaveDataOpen(p)
          \/ SaveDataDump(p)
          \/ SaveDataFails(p)
          \/ GetSatDataCachePoints(p)
          \/ GetSatDataCacheShadow(p)
          \/ GetSatDataReturn(p)

Spec == Init /\ [][Next]_vars

\* ---------------------------------------------- a cold start, with fairness

\* The data directory is empty and so is the cache.
LInit ==
    /\ ThreadsInit("init")
    /\ files = [f \in FileNames |-> Absent]
    /\ PipelineIdle
    /\ ServiceIdle

\* Fetch, compute and persist fail only for a while: in
\* initialize_data_store, in the scheduled refreshes, and in a worker's
\* requests before its last counted one.
FaultsAllowed(p) == p \in {"main", "sched"} \/ calls[p] < MaxCalls

\* Lines 240-246: requests keep arriving after the counted ones.
SatDataCallAgain(p) ==
    /\ pc["main"] = "started"
    /\ pc[p] = "idle"
    /\ calls[p] = MaxCalls
    /\ result' = [result EXCEPT ![p] = NoResult]
    /\ produced' = [produced EXCEPT ![p] = None]
    /\ ld' = [ld EXCEPT ![p] = NoneTriple]
    /\ IF CacheEmpty
       THEN /\ Goto(p, "ld_exists")
            /\ loadNo' = [loadNo EXCEPT ![p] = 1]
       ELSE /\ Goto(p, "sd_ret1")
            /\ loadNo' = [loadNo EXCEPT ![p] = 0]
    /\ UNCHANGED <<cachevars, files, gen, saved, calls, hvars>>
    /\ UNCHANGED <<pvars, qvars, clock>>

\* A read fails: the file is missing or being rewritten, or a fault.
LiveLoadDataFails(p) ==
    /\ pc[p] \in ReadPcs
    /\ FaultsAllowed(p) \/ ~Readable(ReadFile(pc[p]))
    /\ LoadDataFails(p)

LiveGetSatDataFails(p) == FaultsAllowed(p) /\ GetSatDataFails(p)

LiveSaveDataFails(p) == FaultsAllowed(p) /\ SaveDataFails(p)

\* A step of thread p that is inside a call.
Continue(p) ==
    \/ LoadDataExists(p)
    \/ LoadDataTimestamp(p)
    \/ LoadDataPoints(p)
    \/ LoadDataShadow(p)
    \/ LiveLoadDataFails(p)
    \/ LoadDataCachePoints(p)
    \/ LoadDataCacheShadow(p)
    \/ LoadDataReturn(p)
    \/ GetSatDataFetch(p)
    \/ GetSatDataCompute(p)
    \/ LiveGetSatDataFails(p)
    \/ SaveDataOpen(p)
    \/ SaveDataDump(p)
    \/ LiveSaveDataFails(p)
    \/ GetSatDataCachePoints(p)
    \/ GetSatDataCacheShadow(p)
    \/ GetSatDataReturn(p)

\* A step of a request worker: a new request, or the next step of one.
WorkerStep(p) ==
    \/ SatDataCall(p)
    \/ SatDataCallAgain(p)
    \/ SatDataReadPoints(p)
    \/ SatDataReturn(p)
    \/ Continue(p)

LNext ==
    \/ InitializeDataStore
    \/ RefreshSatelliteData
    \/ \E p \in Workers :
          \/ SatDataCall(p)
          \/ SatDataCallAgain(p)
          \/ SatDataReadPoints(p)
          \/ SatDataReturn(p)
    \/ \E p \in Procs :
          \/ LoadDataExists(p)
          \/ LoadDataTimestamp(p)
          \/ LoadDataPoints(p)
          \/ LoadDataShadow(p)
          \/ LiveLoadDataFails(p)
          \/ LoadDataCachePoints(p)
          \/ LoadDataCacheShadow(p)
          \/ LoadDataReturn(p)
          \/ GetSatDataFetch(p)
          \/ GetSatDataCompute(p)
          \/ LiveGetSatDataFails(p)
          \/ SaveDataOpen(p)
          \/ SaveDataDump(p)
          \/ LiveSaveDataFails(p)
          \/ GetSatDataCachePoints(p)
          \/ GetSatDataCacheShadow(p)
          \/ GetSatDataReturn(p)

\* Every thread that can run does: the import of app.py, a refresh once it
\* has fired, and the request workers, to which requests keep coming. The
\* timer itself need not fire.
SpecLive ==
    /\ LInit
    /\ [][LNext]_vars
    /\ WF_vars(InitializeDataStore \/ Continue("main"))
    /\ WF_vars(Continue("sched"))
    /\ \A p \in Workers : WF_vars(WorkerStep(p))

\* ---- the computation of one run, lines 158-223

\* The values pinned while the other specification runs.
ThreadsIdle ==
    /\ ThreadsInit("off")
    /\ files = [f \in FileNames |-> Absent]

PInit ==
    /\ ppc = "decimate"
    /\ raw_epoches \in RawInputs
    /\ eclipse \in EclipseInputs
    /\ epoches = << >>
    /\ i = 0
    /\ j = 0
    /\ date = None
    /\ shadow_start = None
    /\ shadow_intervals = << >>
    /\ sat = << >>
    /\ ThreadsIdle
    /\ ServiceIdle

\* Lines 158-170: the decimation loop.
DecimateEpoches ==
    /\ ppc = "decimate"
    /\ epoches' = Decimate(raw_epoches)
    /\ ppc' = "spline"
    /\ UNCHANGED <<raw_epoches, eclipse, i, j, date, shadow_start,
                   shadow_intervals, sat>>
    /\ UNCHANGED <<cvars, qvars, clock>>

\* Lines 172-177: CatmullRom(spline_points) raises ValueError with fewer
\* than two vertices; the except clause of line 235 ends the run.
BuildCurve ==
    /\ ppc = "spline"
    /\ ppc' = IF Len(epoches) < 2 THEN "failed" ELSE "sample"
    /\ i' = 1
    /\ j' = 0
    /\ UNCHANGED <<raw_epoches, eclipse, epoches, date, shadow_start,
                   shadow_intervals, sat>>
    /\ UNCHANGED <<cvars, qvars, clock>>

\* The iteration without line 220: shadow_start stays set when an interval
\* is closed.
SampleKeepsStart ==
    /\ ppc = "sample"
    /\ LET start == SegStart(i)
           steps == Steps(start, SegEnd(i))
           d == start + j * SampleSeconds
           in_shadow == is_in_shadow(d)
           opened == IF in_shadow /\ shadow_start = None THEN d ELSE shadow_start
       IN /\ date' = d
          /\ sat' = IF j = 0
                    THEN Append(sat, [date |-> d, location |-> i])
                    ELSE sat
          /\ IF ~in_shadow /\ opened # None
             THEN /\ shadow_intervals' = Append(shadow_intervals, <<opened, d>>)
                  /\ shadow_start' = opened
             ELSE /\ shadow_intervals' = shadow_intervals
                  /\ shadow_start' = opened
          /\ IF j + 1 < steps
             THEN /\ j' = j + 1
                  /\ UNCHANGED <<i, ppc>>
             ELSE /\ j' = 0
                  /\ i' = i + 1
                  /\ ppc' = IF i + 1 > Len(epoches) - 1 THEN "flush" ELSE "sample"
    /\ UNCHANGED <<raw_epoches, eclipse, epoches>>
    /\ UNCHANGED <<cvars, qvars, clock>>

\* The iteration with shadow_start reset at the first sample of every
\* segment.
SampleResetsAtSegment ==
    /\ ppc = "sample"
    /\ LET start == SegStart(i)
           steps == Steps(start, SegEnd(i))
           d == start + j * SampleSeconds
           in_shadow == is_in_shadow(d)
           carried == IF j = 0 THEN None ELSE shadow_start
           opened == IF in_shadow /\ carried = None THEN d ELSE carried
       IN /\ date' = d
          /\ sat' = IF j = 0
                    THEN Append(sat, [date |-> d, location |-> i])
                    ELSE sat
          /\ IF ~in_shadow /\ opened # None
             THEN /\ shadow_intervals' = Append(shadow_intervals, <<opened, d>>)
                  /\ shadow_start' = None
             ELSE /\ shadow_intervals' = shadow_intervals
                  /\ shadow_start' = opened
          /\ IF j + 1 < steps
             THEN /\ j' = j + 1
                  /\ UNCHANGED <<i, ppc>>
             ELSE /\ j' = 0
                  /\ i' = i + 1
                  /\ ppc' = IF i + 1 > Len(epoches) - 1 THEN "flush" ELSE "sample"
    /\ UNCHANGED <<raw_epoches, eclipse, epoches>>
    /\ UNCHANGED <<cvars, qvars, clock>>

\* Lines 185-220: one iteration of the inner loop, sample j of segment i.
Sample ==
    /\ ppc = "sample"
    /\ LET start == SegStart(i)
           steps == Steps(start, SegEnd(i))
           d == start + j * SampleSeconds
           in_shadow == is_in_shadow(d)
           opened == IF in_shadow /\ shadow_start = None THEN d ELSE shadow_start
       IN /\ date' = d
          /\ sat' = IF j = 0
                    THEN Append(sat, [date |-> d, location |-> i])
                    ELSE sat
          /\ IF ~in_shadow /\ opened # None
             THEN /\ shadow_intervals' = Append(shadow_intervals, <<opened, d>>)
                  /\ shadow_start' = None
             ELSE /\ shadow_intervals' = shadow_intervals
                  /\ shadow_start' = opened
          /\ IF j + 1 < steps
             THEN /\ j' = j + 1
                  /\ UNCHANGED <<i, ppc>>
             ELSE /\ j' = 0
                  /\ i' = i + 1
                  /\ ppc' = IF i + 1 > Len(epoches) - 1 THEN "flush" ELSE "sample"
    /\ UNCHANGED <<raw_epoches, eclipse, epoches>>
    /\ UNCHANGED <<cvars, qvars, clock>>

\* Lines 222-223: the terminal flush.
Flush ==
    /\ ppc = "flush"
    /\ shadow_intervals' =
          IF shadow_start # None
          THEN Append(shadow_intervals, <<shadow_start, Last(epoches).date>>)
          ELSE shadow_intervals
    /\ ppc' = "computed"
    /\ UNCHANGED <<raw_epoches, eclipse, epoches, i, j, date, shadow_start, sat>>
    /\ UNCHANGED <<cvars, qvars, clock>>

PNext == DecimateEpoches \/ BuildCurve \/ Sample \/ Flush

SpecPipeline == PInit /\ [][PNext]_vars

\* ------------------------------------------------- the handlers of app.py

\* Most points the cache holds.
MaxPoints == 3

\* Timestamps of cached points, 5 s apart.
PointTimes == {0, 5, 10, 15}

\* The cached trajectory: ascending dates (lines 179-211 build it so).
PointsAt(ts) == [k \in 1..Len(ts) |-> [date |-> ts[k], location |-> k]]

CachedPointLists ==
    {PointsAt(ts) : ts \in UNION {AscSeqs(PointTimes, n) : n \in 0..MaxPoints}}

CachedShadowLists == {<< >>, <<<<0, 5>>>>, <<<<0, 5>>, <<10, 15>>>>}

\* ISO-8601 strings a client sends: a wall-clock reading, in seconds, and the
\* UTC offset written after it.
IsoTexts ==
    {[wall |-> 0, offset |-> 0], [wall |-> 5, offset |-> 0],
     [wall |-> 10, offset |-> 0], [wall |-> 3605, offset |-> 3600]}

\* request.json: an object with none, one or both of the keys.
Bodies == UNION {[D -> IsoTexts] : D \in SUBSET {"from", "to"}}

\* dateutil's isoparse on a string with an offset: the instant it denotes.
isoparse(text) == text.wall - text.offset

\* Lines 28-29 and 47-48.
start_dt(body) == IF "from" \in DOMAIN body THEN isoparse(body["from"]) ELSE None

end_dt(body) == IF "to" \in DOMAIN body THEN isoparse(body["to"]) ELSE None

\* A test with both comparisons non-strict.
SkipExclusive(d, lo, hi) == (lo # None /\ d <= lo) \/ (hi # None /\ d >= hi)

\* The test of lines 34 and 53.
Skip(d, lo, hi) == (lo # None /\ d < lo) \/ (hi # None /\ d > hi)

RECURSIVE FilterFrom(_, _, _, _, _)
\* The loop of lines 31-36 and 50-55, from position k with res collected.
FilterFrom(points, k, lo, hi, res) ==
    IF k > Len(points) THEN res
    ELSE IF Skip(points[k].date, lo, hi)
         THEN FilterFrom(points, k + 1, lo, hi, res)
         ELSE FilterFrom(points, k + 1, lo, hi, Append(res, points[k]))

\* sat_data with both globals set: lines 263-266.
CachedRecord ==
    [points |-> sat_data_cache, shadow_intervals |-> shadow_intervals_cache]

QInit ==
    /\ sat_data_cache \in CachedPointLists
    /\ shadow_intervals_cache \in CachedShadowLists
    /\ updated_at_cache = 0
    /\ files = [f \in FileNames |-> Absent]
    /\ pc = [p \in Procs |-> IF p = "main" THEN "started" ELSE "idle"]
    /\ gen = [p \in Procs |-> None]
    /\ saved = [p \in Procs |-> FALSE]
    /\ ld = [p \in Procs |-> NoneTriple]
    /\ loadNo = [p \in Procs |-> 0]
    /\ produced = [p \in Procs |-> None]
    /\ result = [p \in Procs |-> NoResult]
    /\ calls = [p \in Procs |-> 0]
    /\ nextGen = 2
    /\ lastCompleted = None
    /\ disk_fault = FALSE
    /\ PipelineIdle
    /\ ServiceIdle

\* Lines 22-39: POST /tracking/iss-data-raw.
GetIssDataRaw ==
    \E body \in Bodies :
        LET data == CachedRecord
            res == FilterFrom(data.points, 1, start_dt(body), end_dt(body), << >>)
        IN /\ raw_request' = body
           /\ raw_response' = [status |-> "ok", points |-> res]
           /\ UNCHANGED <<data_request, data_response, pvars, cvars, clock>>

\* A handler that returns the shadow intervals that end inside the range.
GetIssDataInRange ==
    \E body \in Bodies :
        LET data == CachedRecord
            res == FilterFrom(data.points, 1, start_dt(body), end_dt(body), << >>)
            inside(s) == ~Skip(s[2], start_dt(body), end_dt(body))
        IN /\ data_request' = body
           /\ data_response' =
                 [status |-> "ok", points |-> res,
                  shadowIntervals |-> SelectSeq(data.shadow_intervals, inside)]
           /\ UNCHANGED <<raw_request, raw_response, pvars, cvars, clock>>

\* Lines 41-58: POST /tracking/iss-data.
GetIssData ==
    \E body \in Bodies :
        LET data == CachedRecord
            res == FilterFrom(data.points, 1, start_dt(body), end_dt(body), << >>)
        IN /\ data_request' = body
           /\ data_response' =
                 [status |-> "ok", points |-> res,
                  shadowIntervals |-> data.shadow_intervals]
           /\ UNCHANGED <<raw_request, raw_response, pvars, cvars, clock>>

QNext == GetIssDataRaw \/ GetIssData

SpecQuery == QInit /\ [][QNext]_vars

\* ------------------------------- save_data, then load_data, with the clock

\* Seconds the clock runs on after its first reading.
MaxSeconds == 1

\* Most points of a saved trajectory.
MaxSaved == 2

\* Microseconds in a second.
Million == 1000000

\* A datetime as microseconds since the epoch, and back.
Micros(dt) == dt.sec * Million + dt.usec

FromMicros(m) == [sec |-> m \div Million, usec |-> m % Million]

\* Readings of the clock: the start, the middle and the last microsecond of
\* a second.
ClockValues ==
    {[sec |-> s, usec |-> u] : s \in 100..(100 + MaxSeconds), u \in {0, 500000, 999999}}

\* Dates of trajectory points, in microseconds; lists of points to save.
PointMicros == {0, 500000, 5000000}

SavedPointLists ==
    {[k \in 1..Len(ms) |-> [date |-> FromMicros(ms[k]), location |-> k]] :
        ms \in UNION {AscSeqs(PointMicros, n) : n \in 0..MaxSaved}}

\* datetime.isoformat of a UTC datetime: the fraction is written only when
\* the microseconds are not 0.
isoformat(dt) ==
    [seconds |-> dt.sec,
     fraction |-> IF dt.usec = 0 THEN None ELSE dt.usec,
     offset |-> "+00:00"]

\* datetime.fromisoformat: a missing fraction reads as 0 microseconds.
fromisoformat(text) ==
    [sec |-> text.seconds, usec |-> IF text.fraction = None THEN 0 ELSE text.fraction]

\* Lines 70-74 under json.dump: the points with their dates as strings.
DumpPoints(points) ==
    [k \in 1..Len(points) |-> [points[k] EXCEPT !.date = isoformat(@)]]

\* Lines 77-85 under json.load: the 'date' strings back to datetimes.
LoadPoints(text) ==
    [k \in 1..Len(text) |-> [text[k] EXCEPT !.date = fromisoformat(@)]]

\* json.dump and json.load of the shadow intervals: numbers as their repr.
DumpIntervals(intervals) ==
    [k \in 1..Len(intervals) |->
        <<[repr |-> intervals[k][1]], [repr |-> intervals[k][2]]>>]

LoadIntervals(text) ==
    [k \in 1..Len(text) |-> <<text[k][1].repr, text[k][2].repr>>]

\* A file that does not exist, and one holding text.
NoFile == [exists |-> FALSE]

FileWith(text) == [exists |-> TRUE, text |-> text]

\* get_sat_data has computed sat and shadow_intervals (line 223) in
\* initialize_data_store, with an empty data directory and an empty cache.
RInit ==
    /\ sat \in SavedPointLists
    /\ shadow_intervals \in CachedShadowLists
    /\ clock \in {c \in ClockValues : c.sec = 100}
    /\ files = [f \in FileNames |-> NoFile]
    /\ ppc = "computed"
    /\ raw_epoches = << >>
    /\ eclipse = {}
    /\ epoches = << >>
    /\ i = 0
    /\ j = 0
    /\ date = None
    /\ shadow_start = None
    /\ ThreadsInit("sv_open1")
    /\ raw_request = << >>
    /\ raw_response = NoResponse
    /\ data_request = << >>
    /\ data_response = NoResponse

\* Time passes.
Tick ==
    /\ \E c \in ClockValues : Micros(c) > Micros(clock) /\ clock' = c
    /\ UNCHANGED <<pvars, cvars, qvars>>

\* Lines 88-104: the three files are written, the timestamp file with the
\* clock read at line 100; True is returned to line 226.
SaveData ==
    /\ pc["main"] = "sv_open1"
    /\ LET now == clock IN
       files' = [f \in FileNames |->
                   CASE f = SAT_DATA_FILE -> FileWith(DumpPoints(sat))
                     [] f = SHADOW_FILE -> FileWith(DumpIntervals(shadow_intervals))
                     [] f = TIMESTAMP_FILE -> FileWith(isoformat(now))]
    /\ saved' = [saved EXCEPT !["main"] = TRUE]
    /\ Goto("main", "gs_c1")
    /\ UNCHANGED <<pvars, cachevars, gen, ld, loadNo, produced, result, calls,
                   hvars, qvars, clock>>

\* Lines 105-107: an open or write raises after n of the files were written;
\* False is returned to line 226, which drops it.
SaveDataReturnsFalse ==
    /\ pc["main"] = "sv_open1"
    /\ \E n \in 0..2 :
          files' = [f \in FileNames |->
                      CASE f = SAT_DATA_FILE /\ n >= 1 -> FileWith(DumpPoints(sat))
                        [] f = SHADOW_FILE /\ n >= 2 ->
                              FileWith(DumpIntervals(shadow_intervals))
                        [] OTHER -> files[f]]
    /\ saved' = [saved EXCEPT !["main"] = FALSE]
    /\ Goto("main", "gs_c1")
    /\ UNCHANGED <<pvars, cachevars, gen, ld, loadNo, produced, result, calls,
                   hvars, qvars, clock>>

\* Lines 229-234: the cache is assigned, with the clock read at line 232.
GetSatDataUpdateCache ==
    /\ pc["main"] = "gs_c1"
    /\ sat_data_cache' = sat
    /\ shadow_intervals_cache' = shadow_intervals
    /\ updated_at_cache' = clock
    /\ Goto("main", "ld_exists")
    /\ UNCHANGED <<pvars, files, gen, saved, ld, loadNo, produced, result, calls,
                   hvars, qvars, clock>>

\* Lines 114-130 and 138-140: the three files are read into the locals, or
\* (None, None, None) is returned.
LoadDataRead ==
    /\ pc["main"] = "ld_exists"
    /\ IF \A f \in FileNames : files[f].exists
       THEN /\ ld' = [ld EXCEPT !["main"] =
                        [updated_at |-> fromisoformat(files[TIMESTAMP_FILE].text),
                         sat_data |-> LoadPoints(files[SAT_DATA_FILE].text),
                         shadow_intervals |-> LoadIntervals(files[SHADOW_FILE].text)]]
            /\ Goto("main", "ld_c1")
       ELSE /\ ld' = [ld EXCEPT !["main"] = NoneTriple]
            /\ Goto("main", "started")
    /\ UNCHANGED <<pvars, cachevars, files, gen, saved, loadNo, produced, result,
                   calls, hvars, qvars, clock>>

\* Lines 132-137: the cache is assigned and the triple returned.
LoadDataAssign ==
    /\ pc["main"] = "ld_c1"
    /\ sat_data_cache' = ld["main"].sat_data
    /\ shadow_intervals_cache' = ld["main"].shadow_intervals
    /\ updated_at_cache' = ld["main"].updated_at
    /\ Goto("main", "started")
    /\ UNCHANGED <<pvars, files, gen, saved, ld, loadNo, produced, result, calls,
                   hvars, qvars, clock>>

RNext ==
    \/ Tick
    \/ SaveData
    \/ SaveDataReturnsFalse
    \/ GetSatDataUpdateCache
    \/ LoadDataRead
    \/ LoadDataAssign

SpecRoundTrip == RInit /\ [][RNext]_vars

\* ------------------------------------------------------------------ claims

RECURSIVE GreedyFrom(_, _, _)
\* The greedy rule applied to every element of raw from index k on.
GreedyFrom(raw, k, kept) ==
    IF k > Len(raw) THEN kept
    ELSE IF kept = << >> \/ raw[k] - Last(kept) >= MinGap
         THEN GreedyFrom(raw, k + 1, Append(kept, raw[k]))
         ELSE GreedyFrom(raw, k + 1, kept)

EpochDates == [k \in 1..Len(epoches) |-> epoches[k].date]

\* C1: for a raw sequence of at least 2 epochs the decimated epochs are those
\* the greedy rule keeps when applied to every raw epoch, the last included
\* (0 s, 100 s, 500 s decimate to 0 s and 500 s).
C1_DecimationVisitsEveryEpoch ==
    (ppc \in {"spline", "sample", "flush", "computed", "failed"}
        /\ Len(raw_epoches) >= 2)
    => EpochDates = GreedyFrom(raw_epoches, 1, << >>)

RECURSIVE SumSteps(_)
\* The sum of steps over the segments 1 .. n of the decimated epochs.
SumSteps(n) ==
    IF n = 0 THEN 0 ELSE SumSteps(n - 1) + Steps(SegStart(n), SegEnd(n))

\* C2: the trajectory of a completed run holds one point per 5 s sample: the
\* sum over the segments of steps(segment) points.
C2_OnePointPerSample ==
    ppc = "computed" => Len(sat) = SumSteps(Len(epoches) - 1)

\* The timestamp of the last sample the loops evaluate.
LastSampleTime ==
    LET n == Len(epoches) IN
    SegStart(n - 1) + (Steps(SegStart(n - 1), SegEnd(n - 1)) - 1) * SampleSeconds

\* C3: a run that ends Eclipsed emits one final interval, from shadow_start to
\* the timestamp of the last sample evaluated.
C3_FlushEndsAtLastSample ==
    (ppc = "computed" /\ shadow_start # None)
    => Last(shadow_intervals) = <<shadow_start, LastSampleTime>>

\* C4: a run of get_sat_data that has assigned the in-memory cache has had its
\* save_data return True (all three files written).
C4_CacheSwappedOnlyAfterSave ==
    \A p \in Procs : pc[p] \in {"gs_c2", "gs_c3"} => saved[p]

\* C5: the three artifacts load_data reads together belong to one generation.
C5_LoadedTripleOneGeneration ==
    \A p \in Procs :
        (ld[p].updated_at # None /\ ld[p].sat_data # None
            /\ ld[p].shadow_intervals # None)
        => (ld[p].sat_data = ld[p].shadow_intervals
            /\ ld[p].sat_data = ld[p].updated_at)

\* C6: the record sat_data returns pairs points and shadow intervals of one
\* generation.
C6_ReturnedRecordOneGeneration ==
    \A p \in Workers :
        result[p].status = "returned"
        => result[p].points = result[p].shadow_intervals

\* C7: a step of get_sat_data before the save step, the failing one included,
\* leaves the three cache variables as they are; the failing step returns []
\* to the caller without raising; and a sat_data call that finds the cache
\* populated returns what the cache holds (stale-serve).
C7_FailedRunLeavesCache ==
    [][\A p \in Procs :
          /\ (pc[p] \in {"gs_fetch", "gs_compute"} /\ pc'[p] # pc[p])
             => /\ UNCHANGED cachevars
                /\ (pc'[p] \notin {"gs_compute", "sv_open1"}
                    => /\ produced'[p] = EmptyList
                       /\ result'[p].status # "raised"
                       /\ pc'[p] \in {"idle", "ld_exists"})
          /\ (pc[p] = "idle" /\ pc'[p] \notin {"idle", "gs_fetch"} /\ ~CacheEmpty)
             => pc'[p] = "sd_ret1"
          /\ (pc[p] = "sd_ret1" /\ pc'[p] # pc[p])
             => result'[p].points = sat_data_cache
          /\ (pc[p] = "sd_ret2" /\ pc'[p] # pc[p])
             => result'[p].shadow_intervals = shadow_intervals_cache
      ]_vars

\* C7's case: the scheduled refresh has failed and returned [] while the
\* cache was populated, and a request is returning the cached record.
C7_Witness ==
    /\ produced["sched"] = EmptyList
    /\ pc["sched"] = "idle"
    /\ ~CacheEmpty
    /\ \E p \in Workers : pc[p] = "sd_ret2" /\ result[p].points = sat_data_cache

\* C8: sat_data never raises: every call returns a record whose points and
\* shadow_intervals are lists, the empty record when no cache was obtained.
C8_SatDataNeverRaises ==
    \A p \in Workers :
        /\ result[p].status # "raised"
        /\ result[p].status = "returned"
           => /\ result[p].points # None
              /\ result[p].shadow_intervals # None
              /\ (result[p].points = EmptyList
                    \/ result[p].shadow_intervals = EmptyList)
                 => result[p] = EmptyRecord

\* C8's case: load, generation and reload have all failed in one call, and
\* the call has returned the empty record.
C8_Witness ==
    \E p \in Workers :
        /\ result[p] = EmptyRecord
        /\ produced[p] = EmptyList
        /\ loadNo[p] = 2
        /\ disk_fault

\* C9: sat_data returns the empty record only when the generation it ran
\* produced nothing, and when that generation produced a record it returns
\* that record's points and shadow intervals.
C9_EmptyOnlyWithoutAnyRecord ==
    \A p \in Workers :
        /\ result[p] = EmptyRecord => produced[p] = EmptyList
        /\ (result[p].status = "returned" /\ produced[p] # None
                /\ produced[p] # EmptyList)
           => (result[p].points = produced[p]
               /\ result[p].shadow_intervals = produced[p])

\* No thread is inside initialize_data_store, a refresh or a sat_data call.
Quiescent == \A p \in Procs : pc[p] \in {"idle", "started"}

\* C10: once the regenerations have completed (every read and write of the
\* files went through, and every file is whole), the cache holds the points
\* and the shadow intervals of the regeneration that completed last, and so
\* do the files.
C10_LastCompletedWins ==
    (Quiescent /\ ~disk_fault /\ lastCompleted # None
        /\ \A f \in FileNames : Readable(f))
    => /\ sat_data_cache = lastCompleted
       /\ shadow_intervals_cache = lastCompleted
       /\ \A f \in FileNames : files[f] = lastCompleted

\* C14: the decimated epochs have strictly increasing timestamps with every
\* consecutive gap at least 240 s, and for a raw sequence of at least 2
\* elements the first of them is raw element 0.
C14_DecimatedGaps ==
    ppc \in {"spline", "sample", "flush", "computed", "failed"}
    => /\ \A k \in 1..(Len(epoches) - 1) :
             /\ epoches[k].date < epoches[k + 1].date
             /\ epoches[k + 1].date - epoches[k].date >= MinGap
       /\ Len(raw_epoches) >= 2
          => (Len(epoches) >= 1 /\ epoches[1].date = raw_epoches[1]
                /\ epoches[1].location = 1)

\* C14's case: decimation has run, kept several epochs and skipped one that
\* came less than 240 s after the epoch kept before it.
C14_Witness ==
    /\ ppc = "spline"
    /\ Len(epoches) >= 2
    /\ \E k \in 2..(Len(raw_epoches) - 1) :
          /\ raw_epoches[k] - raw_epoches[k - 1] < MinGap
          /\ \A n \in 1..Len(epoches) : epoches[n].location # k

\* C15: the shadow intervals of a run, the flushed one included, each have
\* start < end, and each ends no later than the next one starts.
C15_IntervalsAscending ==
    /\ \A k \in 1..Len(shadow_intervals) :
          shadow_intervals[k][1] < shadow_intervals[k][2]
    /\ \A k \in 1..(Len(shadow_intervals) - 1) :
          shadow_intervals[k][2] <= shadow_intervals[k + 1][1]

\* C15's case: a completed run with one interval closed by a sample and one
\* closed by the terminal flush.
C15_Witness ==
    /\ ppc = "computed"
    /\ shadow_start # None
    /\ Len(shadow_intervals) >= 2
    /\ Last(shadow_intervals)[1] = shadow_start

\* C17: on each sample, Lit and a true predicate record shadow_start = the
\* sample's timestamp; Eclipsed and a false predicate emit the one interval
\* [shadow_start, the sample's timestamp] and clear shadow_start; any other
\* sample emits nothing and leaves shadow_start alone, also on the first
\* sample of a later segment.
C17_ShadowStateMachine ==
    [][(ppc = "sample" /\ date' # date)
       => LET in == is_in_shadow(date') IN
          /\ (shadow_start = None /\ in)
             => (shadow_start' = date' /\ shadow_intervals' = shadow_intervals)
          /\ (shadow_start # None /\ ~in)
             => /\ shadow_intervals' =
                      Append(shadow_intervals, <<shadow_start, date'>>)
                /\ shadow_start' = None
          /\ (shadow_start = None /\ ~in)
             => (shadow_start' = None /\ shadow_intervals' = shadow_intervals)
          /\ (shadow_start # None /\ in)
             => (shadow_start' = shadow_start
                   /\ shadow_intervals' = shadow_intervals)
      ]_vars

\* C17's case: a run of true samples that began in one segment has been
\* closed by the first false sample, in a later segment.
C17_Witness ==
    /\ ppc \in {"sample", "flush"}
    /\ shadow_start = None
    /\ shadow_intervals # << >>
    /\ Last(shadow_intervals)[2] = date
    /\ Len(epoches) >= 3
    /\ Last(shadow_intervals)[1] < epoches[2].date
    /\ date > epoches[2].date

\* The steps of load_data before line 133, and its assignments.
LoadReadPcs == {"ld_exists"} \cup ReadPcs

LoadAssignPcs == {"ld_c1", "ld_c2", "ld_c3"}

\* The refresh thread is inside get_sat_data.
RefreshRunning ==
    pc["sched"] \in {"gs_fetch", "gs_compute", "gs_c1", "gs_c2", "gs_c3"}
                       \cup OpenPcs \cup DumpPcs

\* C16: whatever the refresh thread is doing, a sat_data call that finds the
\* cache populated goes straight to its return statement, each of its two
\* steps can be taken at once (it waits for nothing), it performs no load and
\* no regeneration, and it returns what the two cache globals hold when it
\* reads them.
C16_CachedCallServedFromMemory ==
    [][\A p \in Workers :
          /\ (pc[p] = "idle" /\ pc'[p] # "idle" /\ ~CacheEmpty)
             => (pc'[p] = "sd_ret1" /\ loadNo'[p] = 0)
          /\ pc[p] = "sd_ret1" => ENABLED SatDataReadPoints(p)
          /\ pc[p] = "sd_ret2" => ENABLED SatDataReturn(p)
          /\ (loadNo[p] = 0 /\ pc[p] \in {"sd_ret1", "sd_ret2"})
             => pc'[p] \in {"sd_ret1", "sd_ret2", "idle"}
          /\ (loadNo[p] = 0 /\ pc[p] = "sd_ret1" /\ pc'[p] = "sd_ret2")
             => result'[p].points = sat_data_cache
          /\ (loadNo[p] = 0 /\ pc[p] = "sd_ret2" /\ pc'[p] = "idle")
             => /\ result'[p].status = "returned"
                /\ result'[p].shadow_intervals = shadow_intervals_cache
      ]_vars

\* C16's case: a call that found the cache populated has returned its record
\* while the refresh was between its fetch and its last assignment.
C16_Witness ==
    /\ RefreshRunning
    /\ \E p \in Workers :
          /\ pc[p] = "idle"
          /\ loadNo[p] = 0
          /\ result[p].status = "returned"
          /\ result[p].points # None

\* C18: a step of load_data before its assignments leaves the three cache
\* variables alone; when it finds an artifact missing or unreadable the call
\* returns (None, None, None) to its caller without raising; and load_data
\* assigns the cache only with all three artifacts read.
C18_LoadFailureLeavesCache ==
    [][\A p \in Procs :
          /\ (pc[p] \in LoadReadPcs /\ pc'[p] # pc[p])
             => /\ UNCHANGED cachevars
                /\ (pc'[p] \notin ReadPcs \cup {"ld_c1"}
                    => /\ ld'[p] = NoneTriple
                       /\ result'[p].status # "raised"
                       /\ pc'[p] # "crashed")
                /\ (pc[p] \in ReadPcs /\ ~Readable(ReadFile(pc[p])))
                   => pc'[p] \notin ReadPcs \cup LoadAssignPcs
          /\ pc'[p] \in LoadAssignPcs
             => /\ ld'[p].updated_at # None
                /\ ld'[p].sat_data # None
                /\ ld'[p].shadow_intervals # None
          /\ (pc[p] \in LoadAssignPcs /\ pc'[p] # pc[p])
             => /\ sat_data_cache' \in {sat_data_cache, ld[p].sat_data}
                /\ shadow_intervals_cache'
                      \in {shadow_intervals_cache, ld[p].shadow_intervals}
                /\ updated_at_cache' \in {updated_at_cache, ld[p].updated_at}
      ]_vars

\* C18's case: the points and shadow files are whole and the timestamp file
\* is missing; the reload of initialize_data_store has returned
\* (None, None, None) and the cache still holds what get_sat_data put there.
C18_Witness ==
    /\ pc["main"] = "started"
    /\ loadNo["main"] = 2
    /\ ld["main"] = NoneTriple
    /\ Readable(SAT_DATA_FILE)
    /\ Readable(SHADOW_FILE)
    /\ files[TIMESTAMP_FILE] = Absent
    /\ ~CacheEmpty
    /\ sat_data_cache = produced["main"]

\* C19: the cache globals never go back to None, and once both are set no
\* sat_data call returns the empty record or starts a regeneration.
C19_PopulatedCacheStays ==
    [][/\ sat_data_cache # None => sat_data_cache' # None
       /\ shadow_intervals_cache # None => shadow_intervals_cache' # None
       /\ ~CacheEmpty
          => \A p \in Workers :
                /\ (result'[p] = EmptyRecord => result[p] = EmptyRecord)
                /\ (pc'[p] = "gs_fetch" => pc[p] = "gs_fetch")
      ]_vars

\* The positions of the cached points the range [from, to] of body selects,
\* an absent bound leaving its side open and both bounds inclusive.
InRange(body) ==
    {k \in 1..Len(sat_data_cache) :
        /\ "from" \in DOMAIN body
           => body["from"].wall - body["from"].offset <= sat_data_cache[k].date
        /\ "to" \in DOMAIN body
           => sat_data_cache[k].date <= body["to"].wall - body["to"].offset}

\* points is the cached points at the positions K, in cache order.
IsSelection(points, K) ==
    /\ Len(points) = Cardinality(K)
    /\ \A k \in K : \E n \in 1..Len(points) : points[n] = sat_data_cache[k]
    /\ \A n \in 1..Len(points) : \E k \in K : points[n] = sat_data_cache[k]
    /\ \A m, n \in 1..Len(points) : m < n => points[m].date < points[n].date

C11_RoundTrip ==
    (pc["main"] = "ld_c1" /\ saved["main"])
    => /\ ld["main"].sat_data = sat
       /\ ld["main"].shadow_intervals = shadow_intervals
       /\ ld["main"].updated_at.sec = updated_at_cache.sec

\* C20: after a cold start, with requests that keep coming and faults that
\* stop, a call made with the cache empty goes to load_data, the cache gets
\* populated and stays so, the empty record stops being returned, and
\* non-empty records keep being returned.
C20_ColdStartRecovers ==
    /\ [][\A p \in Workers :
             (pc[p] = "idle" /\ pc'[p] # "idle" /\ CacheEmpty)
             => (pc'[p] = "ld_exists" /\ loadNo'[p] = 1)]_vars
    /\ <>[](/\ ~CacheEmpty
            /\ \A p \in Workers : result[p] # EmptyRecord)
    /\ []<>(\E p \in Workers :
               /\ result[p].status = "returned"
               /\ result[p].points \notin {None, EmptyList})

\* C20's case: initialize_data_store failed to generate and to load, the
\* server started with an empty cache, and a request's own get_sat_data has
\* populated it and the request has returned the record.
C20_Witness ==
    /\ pc["main"] = "started"
    /\ produced["main"] = EmptyList
    /\ ~CacheEmpty
    /\ \E p \in Workers :
          /\ result[p].status = "returned"
          /\ produced[p] \notin {None, EmptyList}
          /\ result[p].points = produced[p]

====
